---- MODULE Spec2Model ----
(***************************************************************************)
(* Cache manager, connection monitor, health snapshot and service write    *)
(* paths of the CRM dashboard, as state machines.                          *)
(*                                                                         *)
(* One clock variable (now) stands for Date.now().  Every component has    *)
(* its own specification; a component's variables stay unchanged under the *)
(* specifications of the other components.                                 *)
(***************************************************************************)
EXTENDS Integers, Sequences, FiniteSets, TLC

VARIABLES
    now,                       \* Date.now()
    cache,                     \* CacheManager.cache : Map<CacheKey, CacheEntry>
    lastOp,                    \* observation: the last cache call and what it returned
    supabaseConnectionStatus,  \* environment.ts module state
    lastConnectionCheck,       \* environment.ts module state
    enableMockDataFlag,        \* defaultConfig.enableMockData
    isDevelopment,             \* defaultConfig.isDevelopment
    configured,                \* isSupabaseConfigured()
    calls,                     \* invocations of isSupabaseAvailable / shouldUseMockData
    resetPending,              \* observation: no availability check began since the last reset
    toggles,                   \* observation: calls of handleToggleMockData so far
    lastHealthCheck,           \* healthCheck module state
    healthCheckInProgress,     \* healthCheck module state
    hcalls,                    \* invocations of checkSystemHealth
    monitor,                   \* the session of startHealthMonitoring and its timer
    db,                        \* version of the rows held by the data service
    writes,                    \* invocations of the services' write operations
    reads,                     \* invocations of clientService.getAll / loadDashboardData
    logConfig,                 \* Logger.config
    stored,                    \* localStorage['app_logs'], newest first
    console,                   \* what the logger wrote to the console
    nextLogId,                 \* serial of the next entry createLogEntry makes
    remote,                    \* the deliveries logToRemote started, by entry
    lastLog                    \* observation: the last call of Logger.log

cacheVars == <<cache, lastOp>>
connVars == <<supabaseConnectionStatus, lastConnectionCheck, enableMockDataFlag,
              isDevelopment, configured, calls, resetPending, toggles>>
healthVars == <<lastHealthCheck, healthCheckInProgress, hcalls, monitor>>
svcVars == <<db, writes, reads>>
logVars == <<logConfig, stored, console, nextLogId, remote, lastLog>>
vars == <<now, cacheVars, connVars, healthVars, svcVars, logVars>>

\* ------------------------------------------------------------------------
\* Bounds of the model
\* ------------------------------------------------------------------------
MaxNow == 3            \* the cache specification's clock runs 1..MaxNow
NumCalls == 2          \* concurrent invocations of the availability check
MaxConnTicks == 6      \* clock steps of the connection specification
NumHealthCalls == 2    \* concurrent invocations of checkSystemHealth
MaxWaits == 2          \* short waits the health specification's clock can show
MaxPeriods == 1        \* cache windows the health specification's clock can show
NumWrites == 1         \* concurrent invocations of the services' write operations
NumReads == 1          \* concurrent invocations of the cached reads
MaxVersion == 2        \* versions the rows of the data service go through
MaxTtlPeriods == 1     \* default ttl periods the service specification's clock can show
MaxLogCalls == 4       \* entries the logger creates
MaxStorageEntries == 2 \* maxStorageEntries of the logger (1000 in the global instance)
MaxToggles == 2        \* presses of the mock data button of the status panel

\* ------------------------------------------------------------------------
\* Cache manager (src/unnamed/part_002)
\* ------------------------------------------------------------------------
CacheKey == {"dashboard", "clients", "deals", "activities", "notifications"}

Null == 0

Includes(seq, x) == \E i \in 1..Len(seq) : seq[i] = x

\* The keys, payloads, ttl arguments and dependency lists the cache calls are
\* tried on.  A key is not made to depend on itself: invalidate deletes the key
\* before it looks for dependents, so a self-dependency is never read.
UsedKeys == {"clients", "deals", "dashboard"}
DepLists == {<< >>, <<"clients">>, <<"deals">>}
DepsFor(key) == {l \in DepLists : ~Includes(l, key)}
Payloads == {1, 2}
TTLs == {1, 2}

Remove(c, ks) == [k \in (DOMAIN c) \ ks |-> c[k]]

Put(c, k, e) == [x \in (DOMAIN c) \cup {k} |-> IF x = k THEN e ELSE c[x]]

\* set: the entry stored for (data, dependencies, ttl) at time t
NewEntry(data, dependencies, ttl, t) ==
    [data |-> data, timestamp |-> t + ttl, dependencies |-> dependencies]

CacheSet(c, key, data, dependencies, ttl, t) ==
    Put(c, key, NewEntry(data, dependencies, ttl, t))

\* a get that never finds an entry expired
GetExpiredNever(entry, t) == FALSE

\* get: the freshness test of an entry at time t
GetExpired(entry, t) == t > entry.timestamp

\* get: the returned value
GetValue(c, key, t) ==
    IF key \notin DOMAIN c THEN Null
    ELSE IF GetExpired(c[key], t) THEN Null
    ELSE c[key].data

\* get: the store it leaves (lazy eviction of an expired entry)
GetStore(c, key, t) ==
    IF key \in DOMAIN c /\ GetExpired(c[key], t) THEN Remove(c, {key}) ELSE c

\* a has that takes the entry to be stale at the instant it expires
CacheHasBefore(c, key, t) == key \in DOMAIN c /\ t < c[key].timestamp

\* has
CacheHas(c, key, t) == key \in DOMAIN c /\ t <= c[key].timestamp

\* an invalidation that follows the dependents of the dependents
KeysToInvalidateDeep(c, key) ==
    LET direct == {k \in (DOMAIN c) \ {key} : Includes(c[k].dependencies, key)}
    IN  direct \cup {k \in (DOMAIN c) \ {key} :
                        \E d \in direct : Includes(c[k].dependencies, d)}

\* an invalidation that looks for dependents only when the key was stored
KeysToInvalidateIfPresent(c, key) ==
    IF key \in DOMAIN c
    THEN {k \in (DOMAIN c) \ {key} : Includes(c[k].dependencies, key)}
    ELSE {}

\* invalidate: keysToInvalidate, collected after the key itself was deleted
KeysToInvalidate(c, key) ==
    {k \in (DOMAIN c) \ {key} : Includes(c[k].dependencies, key)}

CacheInvalidate(c, key) == Remove(c, {key} \cup KeysToInvalidate(c, key))

\* a clearing that spares the entries that declare dependencies
ClearIndependent(c) == Remove(c, {k \in DOMAIN c : c[k].dependencies = << >>})

\* invalidateAll: Map.clear
CacheInvalidateAll(c) == Remove(c, DOMAIN c)

\* a sweep that takes an entry to be expired at the instant it expires
ExpiredKeysAtExpiry(c, t) == {k \in DOMAIN c : t >= c[k].timestamp}

\* cleanup: expiredKeys
ExpiredKeys(c, t) == {k \in DOMAIN c : t > c[k].timestamp}

CacheCleanup(c, t) == Remove(c, ExpiredKeys(c, t))

\* getStats
StatsKeys(c) == DOMAIN c

StatsSize(c) == Cardinality(DOMAIN c)

\* what a cache call is observed to do: its name and key, the value it returned
\* (get) or stored (set), the value stored by a set of the same key that directly
\* preceded it (justSet, Null when there was none), and the keys it removed
NoOp == [op |-> "none", key |-> "none", ret |-> Null, justSet |-> Null,
         removed |-> {}]

\* an entry together with the instant at which the ttl given to set runs out,
\* kept beside the code's own fields as an observation of the call
Stamp(e, due) ==
    [data |-> e.data, timestamp |-> e.timestamp, dependencies |-> e.dependencies,
     due |-> due]

Op(name, key) == [NoOp EXCEPT !.op = name, !.key = key]

Set(key, data, dependencies, ttl) ==
    /\ cache' = [CacheSet(cache, key, data, dependencies, ttl, now)
                    EXCEPT ![key] = Stamp(@, now + ttl)]
    /\ lastOp' = [Op("set", key) EXCEPT !.ret = data]
    /\ UNCHANGED <<now, connVars, healthVars, svcVars, logVars>>

Get(key) ==
    /\ cache' = GetStore(cache, key, now)
    /\ lastOp' = [Op("get", key) EXCEPT
                    !.ret = GetValue(cache, key, now),
                    !.justSet = IF lastOp.op = "set" /\ lastOp.key = key
                                THEN lastOp.ret ELSE Null,
                    !.removed = (DOMAIN cache) \ DOMAIN GetStore(cache, key, now)]
    /\ UNCHANGED <<now, connVars, healthVars, svcVars, logVars>>

Has(key) ==
    /\ lastOp' = Op("has", key)
    /\ UNCHANGED <<now, cache, connVars, healthVars, svcVars, logVars>>

Invalidate(key) ==
    /\ cache' = CacheInvalidate(cache, key)
    /\ lastOp' = [Op("invalidate", key) EXCEPT
                    !.removed = (DOMAIN cache) \ DOMAIN CacheInvalidate(cache, key)]
    /\ UNCHANGED <<now, connVars, healthVars, svcVars, logVars>>

InvalidateAll ==
    /\ cache' = CacheInvalidateAll(cache)
    /\ lastOp' = [Op("invalidateAll", "none") EXCEPT
                    !.removed = (DOMAIN cache) \ DOMAIN CacheInvalidateAll(cache)]
    /\ UNCHANGED <<now, connVars, healthVars, svcVars, logVars>>

Cleanup ==
    /\ cache' = CacheCleanup(cache, now)
    /\ lastOp' = [Op("cleanup", "none") EXCEPT
                    !.removed = (DOMAIN cache) \ DOMAIN CacheCleanup(cache, now)]
    /\ UNCHANGED <<now, connVars, healthVars, svcVars, logVars>>

GetStats ==
    /\ lastOp' = Op("getStats", "none")
    /\ UNCHANGED <<now, cache, connVars, healthVars, svcVars, logVars>>

\* the clock advances by one unit
TickCache ==
    /\ now < MaxNow
    /\ now' = now + 1
    /\ lastOp' = Op("tick", "none")
    /\ UNCHANGED <<cache, connVars, healthVars, svcVars, logVars>>

\* ------------------------------------------------------------------------
\* Connection monitor (src/github-deploy/src/config/environment.ts)
\* ------------------------------------------------------------------------
CONNECTION_CHECK_INTERVAL == 30000

FETCH_TIMEOUT == 5000

CallIds == 1..NumCalls

\* what the HEAD request can do: answer ok, answer with an error status, fail,
\* or be aborted by AbortSignal.timeout
FetchOutcomes == {"ok", "notok", "error", "timeout"}

\* An invocation: where it stands (pc), the function called (fn), the time it read
\* on entry (now), the branch it took (path), what isSupabaseAvailable returned
\* (avail) and what the called function returned (ret).  Observations: the fetch
\* outcome, and whether a reset came after its entry (stale).
IdleCall == [pc |-> "idle", fn |-> "none", now |-> 0, path |-> "none",
             avail |-> FALSE, ret |-> FALSE, outcome |-> "none", stale |-> FALSE]

\* isSupabaseAvailable, line 45: the cached result is used
CachedFastPath(t) ==
    /\ t - lastConnectionCheck < CONNECTION_CHECK_INTERVAL
    /\ supabaseConnectionStatus # "unknown"

\* a catch branch that leaves the status as it was
ProbeStatusKeptOnThrow(outcome) ==
    IF outcome = "ok" THEN "connected"
    ELSE IF outcome = "notok" THEN "failed"
    ELSE supabaseConnectionStatus

\* isSupabaseAvailable, lines 67-71: the status a finished probe leaves
ProbeStatus(outcome) == IF outcome = "ok" THEN "connected" ELSE "failed"

\* a probe that records the time at which it ended
CheckTimeAtEnd(c) == now

\* a probe that leaves the recorded check time as it was
CheckTimeKept(c) == lastConnectionCheck

\* isSupabaseAvailable, line 73: the check time a finished probe of call c records
CheckTime(c) == calls[c].now

\* a fallback decision that forgets the negation
MockSameAsAvailability(isAvailable) == isAvailable

\* shouldUseMockData, line 89
MockFromAvailability(isAvailable) == ~isAvailable

\* the value the called function returns, given isSupabaseAvailable's value
Returned(fn, isAvailable) ==
    IF fn = "shouldUseMockData" THEN MockFromAvailability(isAvailable)
    ELSE isAvailable

\* shouldUseMockData returns at once: the force flag is set (line 82), or the
\* posture is not development (line 93)
BeginDirect(c, fn) ==
    /\ fn = "shouldUseMockData"
    /\ enableMockDataFlag \/ ~isDevelopment
    /\ calls' = [calls EXCEPT ![c] =
          [IdleCall EXCEPT !.pc = "done", !.fn = fn, !.now = now,
             !.path = IF enableMockDataFlag THEN "forced" ELSE "production",
             !.ret = enableMockDataFlag]]
    /\ UNCHANGED <<supabaseConnectionStatus, lastConnectionCheck, resetPending>>

\* isSupabaseAvailable up to its first await (entered directly or from
\* shouldUseMockData in the development posture)
BeginAvailable(c, fn) ==
    /\ fn = "shouldUseMockData" => (~enableMockDataFlag /\ isDevelopment)
    /\ resetPending' = FALSE
    /\ IF CachedFastPath(now)
       THEN /\ calls' = [calls EXCEPT ![c] =
                  [IdleCall EXCEPT !.pc = "done", !.fn = fn, !.now = now,
                     !.path = "cached",
                     !.avail = (supabaseConnectionStatus = "connected"),
                     !.ret = Returned(fn, supabaseConnectionStatus = "connected")]]
            /\ UNCHANGED <<supabaseConnectionStatus, lastConnectionCheck>>
       ELSE IF ~configured
       THEN /\ supabaseConnectionStatus' = "failed"
            /\ lastConnectionCheck' = now
            /\ calls' = [calls EXCEPT ![c] =
                  [IdleCall EXCEPT !.pc = "done", !.fn = fn, !.now = now,
                     !.path = "unconfigured",
                     !.avail = FALSE,
                     !.ret = Returned(fn, FALSE)]]
       ELSE /\ calls' = [calls EXCEPT ![c] =
                  [IdleCall EXCEPT !.pc = "fetching", !.fn = fn, !.now = now,
                     !.path = "fetch"]]
            /\ UNCHANGED <<supabaseConnectionStatus, lastConnectionCheck>>

Begin(c, fn) ==
    /\ calls[c].pc \in {"idle", "done"}
    /\ BeginDirect(c, fn) \/ BeginAvailable(c, fn)
    /\ UNCHANGED <<now, enableMockDataFlag, isDevelopment, configured, toggles,
                   cacheVars, healthVars, svcVars, logVars>>

\* the fetch of call c settles and isSupabaseAvailable runs to its return
Complete(c, outcome) ==
    /\ calls[c].pc = "fetching"
    /\ outcome = "timeout" => now - calls[c].now >= FETCH_TIMEOUT
    /\ supabaseConnectionStatus' = ProbeStatus(outcome)
    /\ lastConnectionCheck' = CheckTime(c)
    /\ calls' = [calls EXCEPT ![c] =
          [@ EXCEPT !.pc = "done", !.outcome = outcome,
             !.avail = (ProbeStatus(outcome) = "connected"),
             !.ret = Returned(calls[c].fn, ProbeStatus(outcome) = "connected")]]
    /\ UNCHANGED <<now, enableMockDataFlag, isDevelopment, configured, toggles, resetPending,
                   cacheVars, healthVars, svcVars, logVars>>

\* a reset: the invocations still in flight have a reset after their entry, and
\* the observations of the settled ones are forgotten
Staled(cs) ==
    [c \in DOMAIN cs |-> IF cs[c].pc = "fetching"
                         THEN [cs[c] EXCEPT !.stale = TRUE]
                         ELSE IdleCall]

EnableMockData(enable) ==
    /\ enableMockDataFlag' = enable
    /\ supabaseConnectionStatus' = "unknown"
    /\ lastConnectionCheck' = 0
    /\ resetPending' = TRUE
    /\ calls' = Staled(calls)
    /\ UNCHANGED <<now, isDevelopment, configured, toggles,
                   cacheVars, healthVars, svcVars, logVars>>

ResetConnectionStatus ==
    /\ supabaseConnectionStatus' = "unknown"
    /\ lastConnectionCheck' = 0
    /\ resetPending' = TRUE
    /\ calls' = Staled(calls)
    /\ UNCHANGED <<now, enableMockDataFlag, isDevelopment, configured, toggles,
                   cacheVars, healthVars, svcVars, logVars>>

\* handleToggleMockData, lines 69-70: the value passed to enableMockData
ShouldEnable(status) == status # "connected"

\* SystemStatus.handleToggleMockData: enableMockData(shouldEnable), then
\* resetConnectionStatus(); the refresh it schedules is a call of
\* checkSystemHealth, which reads none of the connection state
HandleToggleMockData ==
    /\ toggles < MaxToggles
    /\ toggles' = toggles + 1
    /\ enableMockDataFlag' = ShouldEnable(supabaseConnectionStatus)
    /\ supabaseConnectionStatus' = "unknown"
    /\ lastConnectionCheck' = 0
    /\ resetPending' = TRUE
    /\ calls' = Staled(Staled(calls))
    /\ UNCHANGED <<now, isDevelopment, configured,
                   cacheVars, healthVars, svcVars, logVars>>

\* The clock advances by the probe timeout or by the cooldown, but not past the
\* instant at which a fetch in flight is aborted.
TickConn(d) ==
    /\ now + d <= 1 + MaxConnTicks * FETCH_TIMEOUT
    /\ \A c \in CallIds :
          calls[c].pc = "fetching" => now + d - calls[c].now <= FETCH_TIMEOUT
    /\ now' = now + d
    /\ UNCHANGED <<cacheVars, connVars, healthVars, svcVars, logVars>>

NextConn ==
    \/ \E c \in CallIds, fn \in {"isSupabaseAvailable", "shouldUseMockData"} :
          Begin(c, fn)
    \/ \E c \in CallIds, outcome \in FetchOutcomes : Complete(c, outcome)
    \/ \E enable \in BOOLEAN : EnableMockData(enable)
    \/ ResetConnectionStatus
    \/ \E d \in {FETCH_TIMEOUT, CONNECTION_CHECK_INTERVAL} : TickConn(d)

\* the status panel: its two buttons, the availability checks and the clock
NextToggle ==
    \/ \E c \in CallIds, fn \in {"isSupabaseAvailable", "shouldUseMockData"} :
          Begin(c, fn)
    \/ \E c \in CallIds, outcome \in FetchOutcomes : Complete(c, outcome)
    \/ HandleToggleMockData
    \/ ResetConnectionStatus
    \/ \E d \in {FETCH_TIMEOUT, CONNECTION_CHECK_INTERVAL} : TickConn(d)

\* ------------------------------------------------------------------------
\* Health snapshot (src/unnamed/part_001)
\* ------------------------------------------------------------------------
HEALTH_CHECK_CACHE_DURATION == 30000

HEALTH_WAIT == 100

HealthIds == 1..NumHealthCalls

ServiceStatuses == {"healthy", "degraded", "unhealthy"}

\* lastHealthCheck = null
NoSnapshot == [overall |-> "none", services |-> << >>, timestamp |-> 0]

\* an overall status that looks at unhealthy services only
OverallIgnoresDegraded(services) ==
    IF \E i \in 1..Len(services) : services[i] = "unhealthy" THEN "unhealthy"
    ELSE "healthy"

\* checkSystemHealth, lines 118-127
Overall(services) ==
    IF \E i \in 1..Len(services) : services[i] = "unhealthy" THEN "unhealthy"
    ELSE IF \E i \in 1..Len(services) : services[i] = "degraded" THEN "degraded"
    ELSE "healthy"

\* checkSystemHealth, lines 129-133: the snapshot of a check that read t on entry
Snapshot(services, t) ==
    [overall |-> Overall(services), services |-> services, timestamp |-> t]

\* a cached snapshot that never ages
RecentSnapshotNoWindow(forceRefresh, t) ==
    /\ ~forceRefresh
    /\ lastHealthCheck # NoSnapshot

\* no snapshot is stored, or the stored one is at least the cache window old
Lapsed(t) ==
    \/ lastHealthCheck = NoSnapshot
    \/ t - lastHealthCheck.timestamp >= HEALTH_CHECK_CACHE_DURATION

\* checkSystemHealth, lines 92-94
RecentSnapshot(forceRefresh, t) ==
    /\ ~forceRefresh
    /\ lastHealthCheck # NoSnapshot
    /\ t - lastHealthCheck.timestamp < HEALTH_CHECK_CACHE_DURATION

\* a wait that never finds a snapshot to return
WaitReturnsNever(snapshot) == FALSE

\* checkSystemHealth, line 102: after the wait, the stored snapshot is returned
WaitReturns(snapshot) == snapshot # NoSnapshot

\* An invocation of checkSystemHealth: where it stands (pc), its forceRefresh
\* argument, the time it read on entry (now), the branch it returned by (path)
\* and the snapshot it returned (ret).  Observation: whether the cache window
\* had lapsed, or no snapshot was stored, when it entered (lapsed).
\* by tells who made the call: a caller, the initial check of
\* startHealthMonitoring, or its interval timer.
IdleHealthCall == [pc |-> "idle", force |-> FALSE, now |-> 0, path |-> "none",
                   ret |-> NoSnapshot, lapsed |-> FALSE, by |-> "none"]

\* checkSystemHealth up to its first await, called by the given party
HealthEnter(h, forceRefresh, by) ==
    /\ hcalls[h].pc \in {"idle", "done"}
    /\ IF RecentSnapshot(forceRefresh, now)
       THEN /\ hcalls' = [hcalls EXCEPT ![h] =
                  [IdleHealthCall EXCEPT !.pc = "done", !.force = forceRefresh, !.by = by,
                     !.now = now, !.path = "cached",
                     !.ret = lastHealthCheck]]
            /\ UNCHANGED healthCheckInProgress
       ELSE IF healthCheckInProgress
       THEN /\ hcalls' = [hcalls EXCEPT ![h] =
                  [IdleHealthCall EXCEPT !.pc = "waiting", !.force = forceRefresh, !.by = by,
                     !.now = now, !.lapsed = Lapsed(now)]]
            /\ UNCHANGED healthCheckInProgress
       ELSE /\ hcalls' = [hcalls EXCEPT ![h] =
                  [IdleHealthCall EXCEPT !.pc = "probing", !.force = forceRefresh, !.by = by,
                     !.now = now, !.lapsed = Lapsed(now)]]
            /\ healthCheckInProgress' = TRUE
    /\ UNCHANGED <<now, lastHealthCheck, cacheVars, connVars, svcVars, logVars>>

\* checkSystemHealth called by any caller other than the monitoring session
HealthBegin(h, forceRefresh) ==
    /\ HealthEnter(h, forceRefresh, "caller")
    /\ UNCHANGED monitor

\* the 100 ms wait of call h is over
HealthWake(h) ==
    /\ hcalls[h].pc = "waiting"
    /\ now >= hcalls[h].now + HEALTH_WAIT
    /\ IF WaitReturns(lastHealthCheck)
       THEN /\ hcalls' = [hcalls EXCEPT ![h] =
                  [@ EXCEPT !.pc = "done", !.path = "waited", !.ret = lastHealthCheck]]
            /\ UNCHANGED healthCheckInProgress
       ELSE /\ hcalls' = [hcalls EXCEPT ![h] = [@ EXCEPT !.pc = "probing"]]
            /\ healthCheckInProgress' = TRUE
    /\ UNCHANGED <<now, lastHealthCheck, monitor, cacheVars, connVars, svcVars, logVars>>

\* checkSupabaseHealth of call h answers and checkSystemHealth runs to its return
HealthProbeDone(h, status) ==
    /\ hcalls[h].pc = "probing"
    /\ lastHealthCheck' = Snapshot(<<status>>, hcalls[h].now)
    /\ healthCheckInProgress' = FALSE
    /\ hcalls' = [hcalls EXCEPT ![h] =
          [@ EXCEPT !.pc = "done", !.path = "probed",
                    !.ret = Snapshot(<<status>>, hcalls[h].now)]]
    /\ UNCHANGED <<now, monitor, cacheVars, connVars, svcVars, logVars>>

ResetHealthCheck ==
    /\ lastHealthCheck' = NoSnapshot
    /\ healthCheckInProgress' = FALSE
    /\ supabaseConnectionStatus' = "unknown"
    /\ lastConnectionCheck' = 0
    /\ resetPending' = TRUE
    /\ calls' = Staled(calls)
    /\ UNCHANGED <<now, hcalls, monitor, enableMockDataFlag, isDevelopment,
                   configured, toggles, cacheVars, svcVars, logVars>>

\* the instants at which the health specification looks at the clock
HealthInstants ==
    {1 + a * HEALTH_WAIT + b * HEALTH_CHECK_CACHE_DURATION :
        a \in 0..MaxWaits, b \in 0..MaxPeriods}

\* The clock does not pass a due interval tick of the monitoring session.
TickHealth(d) ==
    /\ now + d \in HealthInstants
    /\ monitor.on => now + d <= monitor.next
    /\ now' = now + d
    /\ UNCHANGED <<cacheVars, connVars, healthVars, svcVars, logVars>>

\* no monitoring session, or a session that was stopped
MonitorOff == [on |-> FALSE, next |-> 0, interval |-> 0]

\* the intervals monitoring is started with
MonitorIntervals == {HEALTH_CHECK_CACHE_DURATION}

\* startHealthMonitoring(intervalMs): the interval timer is set and the initial
\* forced check is made
StartHealthMonitoring(h, intervalMs) ==
    /\ ~monitor.on
    /\ monitor' = [on |-> TRUE, next |-> now + intervalMs, interval |-> intervalMs]
    /\ HealthEnter(h, TRUE, "initial")

\* a timer that fires again at the same instant
NextTickSame(m) == m.next

\* setInterval: the next tick is one interval after the last
NextTickAt(m) == m.next + m.interval

\* the interval timer fires: a forced check
MonitorTick(h) ==
    /\ monitor.on
    /\ now = monitor.next
    /\ monitor' = [monitor EXCEPT !.next = NextTickAt(monitor)]
    /\ HealthEnter(h, TRUE, "timer")

\* the disposer returned by startHealthMonitoring: clearInterval
StopHealthMonitoring ==
    /\ monitor.on
    /\ monitor' = MonitorOff
    /\ UNCHANGED <<now, lastHealthCheck, healthCheckInProgress, hcalls,
                   cacheVars, connVars, svcVars, logVars>>

NextMonitor ==
    \/ \E h \in HealthIds, intervalMs \in MonitorIntervals :
          StartHealthMonitoring(h, intervalMs)
    \/ \E h \in HealthIds : MonitorTick(h)
    \/ StopHealthMonitoring
    \/ \E h \in HealthIds : HealthBegin(h, FALSE)
    \/ \E h \in HealthIds : HealthWake(h)
    \/ \E h \in HealthIds, status \in ServiceStatuses : HealthProbeDone(h, status)
    \/ \E d \in {HEALTH_WAIT, HEALTH_CHECK_CACHE_DURATION} : TickHealth(d)

NextHealth ==
    \/ \E h \in HealthIds, forceRefresh \in BOOLEAN : HealthBegin(h, forceRefresh)
    \/ \E h \in HealthIds : HealthWake(h)
    \/ \E h \in HealthIds, status \in ServiceStatuses : HealthProbeDone(h, status)
    \/ ResetHealthCheck
    \/ \E d \in {HEALTH_WAIT, HEALTH_CHECK_CACHE_DURATION} : TickHealth(d)

\* ------------------------------------------------------------------------
\* Services and the dashboard loader
\* (src/github-deploy/src/services/activityService.ts, src/unnamed/part_006,
\*  src/unnamed/part_004)
\* ------------------------------------------------------------------------
DEFAULT_TTL == 300000

\* mockClients, mockDeals, mockDashboardStats: what a read falls back to
MockRows == -1

WriteIds == 1..NumWrites

ReadIds == 1..NumReads

Services == {"client", "deal", "activity"}

\* the services with write operations: the three above and notificationService,
\* whose writes (markAsRead and the like) are taken as updates
WriteServices == Services \cup {"notification"}

\* what the caller passes: acceptable arguments, data that fails validation,
\* or an id that fails the id check
WriteInputs == {"valid", "badData", "badId"}

\* what the data service does with a write request: accepts it, answers with an
\* error, answers with the missing-table error, or the request throws
WriteOutcomes == {"ok", "error", "tableMissing", "thrown"}

WriteOps == {"create", "update", "delete"}

ReadKinds == {"clients", "dashboard"}

\* the reads that go to the data service without looking at the cache: getAll of
\* dealService, activityService and notificationService, getById of
\* clientService and dealService
DirectReads == {"deals", "activities", "notifications", "clientById", "dealById"}

\* what a read is answered with: mock mode (no request), rows, the
\* missing-table error, another error, or a request that throws
ReadAnswers == {"mock", "rows", "tableMissing", "error", "thrown"}

\* [], the empty collection
EmptyRows == -2

\* the key under which the rows of a service are cached
ResourceKey(svc) ==
    IF svc = "client" THEN "clients"
    ELSE IF svc = "deal" THEN "deals"
    ELSE "activities"

\* cacheManager.set as the services call it, the ttl argument left to its default
CachePut(c, key, data, dependencies, t) ==
    [CacheSet(c, key, data, dependencies, DEFAULT_TTL, t)
        EXCEPT ![key] = Stamp(@, t + DEFAULT_TTL)]

\* an invalidation of the client rows that leaves the dashboard entry to its
\* dependencies
InvalidateClientsOnly(c) == CacheInvalidate(c, "clients")

InvalidateClientCache(c) == CacheInvalidate(CacheInvalidate(c, "clients"), "dashboard")

InvalidateDealCache(c) == CacheInvalidate(CacheInvalidate(c, "deals"), "dashboard")

InvalidateActivityCache(c) ==
    CacheInvalidate(CacheInvalidate(c, "activities"), "dashboard")

\* invalidateClientCache(), called on its own
InvalidateClientCacheCall ==
    /\ cache' = InvalidateClientCache(cache)
    /\ lastOp' = [Op("invalidateClientCache", "clients") EXCEPT
                     !.removed = (DOMAIN cache) \ DOMAIN InvalidateClientCache(cache)]
    /\ UNCHANGED <<now, connVars, healthVars, svcVars, logVars>>

\* what a write of service svc does to the cache once the data service has
\* accepted it: the client service invalidates, the other two do nothing
AfterWrite(svc, c) == IF svc = "client" THEN InvalidateClientCache(c) ELSE c

\* the argument checks a write makes before it calls the data service
Validates(svc) == svc = "client"

\* An error value: its class (type), what its message says (msg), whether it is
\* the data service's own error or an AppError whose details chain leads to it
\* (original), and the number of AppError wrappers around it (depth).
NoError == [type |-> "none", msg |-> "none", original |-> FALSE, depth |-> 0]

\* the error object the data service answers with, or the exception of the request
ServiceError(outcome) ==
    [type |-> "ServiceError",
     msg |-> IF outcome = "thrown" THEN "network"
             ELSE IF outcome = "tableMissing" THEN "table" ELSE "db",
     original |-> TRUE, depth |-> 0]

\* new Error(message)
PlainError(msg) == [type |-> "Error", msg |-> msg, original |-> FALSE, depth |-> 0]

\* errorHandler.handleWriteError: the level it logs at, whether it shows a toast,
\* and the AppError it throws (message and code of the error, the error as details)
HandleWriteError(error, showToast) ==
    [level |-> IF error.msg = "validation" THEN "WARN" ELSE "ERROR",
     toast |-> showToast,
     error |-> [type |-> "AppError", msg |-> error.msg,
                original |-> error.original, depth |-> error.depth + 1]]

\* How an operation ends: the error it throws (NoError when it returns), the
\* levels logged by handleWriteError on the way, and the toasts shown.
Quiet(error) == [thrown |-> error, logs |-> << >>, toasts |-> 0]

\* handleWriteError called on the error an operation is about to throw
Handle(r) ==
    LET h == HandleWriteError(r.thrown, TRUE)
    IN  [thrown |-> h.error, logs |-> Append(r.logs, h.level),
         toasts |-> r.toasts + (IF h.toast THEN 1 ELSE 0)]

\* the inputs that differ for an operation: only clientService checks its
\* arguments, create takes no id and delete takes no data
InputsOf(svc, op) ==
    IF svc # "client" THEN {"valid"}
    ELSE IF op = "create" THEN {"valid", "badData"}
    ELSE IF op = "update" THEN {"valid", "badData", "badId"}
    ELSE {"valid", "badId"}

\* clientService: the messages its catch blocks rethrow untouched
Passthrough(op) ==
    IF op = "create" THEN {"validation", "config"}
    ELSE IF op = "update" THEN {"validation", "config", "invalidId"}
    ELSE {"config", "invalidId", "notFound"}

\* clientService: the catch block of operation op
ClientCatch(op, r) == IF r.thrown.msg \in Passthrough(op) THEN r ELSE Handle(r)

\* clientService: the argument checks of operation op on the given input
ClientRejects(op, input) ==
    IF op = "create" THEN input = "badData"
    ELSE IF op = "update" THEN input \in {"badData", "badId"}
    ELSE input = "badId"

ClientRejection(op, input) ==
    ClientCatch(op, Quiet(PlainError(IF input = "badId" THEN "invalidId"
                                     ELSE "validation")))

\* how a write of service svc ends once the data service has answered
Settle(svc, op, outcome) ==
    IF outcome = "ok" THEN Quiet(NoError)
    ELSE IF svc = "client"
    THEN IF outcome = "thrown" THEN ClientCatch(op, Quiet(ServiceError(outcome)))
         ELSE IF outcome = "tableMissing"
         THEN ClientCatch(op, Quiet(PlainError("config")))
         ELSE ClientCatch(op, Handle(Quiet(ServiceError(outcome))))
    ELSE IF svc = "activity"
    THEN IF outcome = "tableMissing" THEN Handle(Quiet(PlainError("tableActivity")))
         ELSE Handle(Quiet(ServiceError(outcome)))
    ELSE IF outcome = "thrown" THEN Handle(Quiet(ServiceError(outcome)))
         ELSE Handle(Handle(Quiet(ServiceError(outcome))))

\* An invocation of a write operation: where it stands (pc), the service and
\* operation, the input, whether a request was issued, what the data service did
\* (result), the version of the rows it left at the data service (version, an
\* observation), and how the operation ended (thrown, logs, toasts).
IdleWrite == [pc |-> "idle", svc |-> "none", op |-> "none", input |-> "none",
              requested |-> FALSE, result |-> "none", version |-> 0,
              thrown |-> NoError, logs |-> << >>, toasts |-> 0]

Ended(wr, r) ==
    [wr EXCEPT !.pc = "done", !.thrown = r.thrown, !.logs = r.logs,
               !.toasts = r.toasts]

IdleRead == [pc |-> "idle", kind |-> "none", force |-> FALSE, answer |-> "none",
             data |-> Null, fromCache |-> FALSE]

\* what a read of the given kind returns for an answer, rows being the rows the
\* data service holds.  clientService.getAll goes through getMockDataIfNeeded,
\* which turns every failure of the fetch into the mock rows, and the dashboard
\* loader falls back to the mock rows as well; the other getAll return [] and
\* the getById return null.
ReadResult(kind, answer, rows) ==
    IF answer = "rows" THEN rows
    ELSE IF kind \in ReadKinds THEN MockRows
    ELSE IF kind \in {"clientById", "dealById"} THEN Null
    ELSE EmptyRows

\* a write operation up to its first await
WriteBegin(w, svc, op, input) ==
    /\ writes[w].pc \in {"idle", "done"}
    /\ svc = "notification" => op = "update"
    /\ input \in InputsOf(svc, op)
    /\ db + Cardinality({x \in WriteIds : writes[x].pc \in {"lookup", "pending"}})
          < MaxVersion
    /\ writes' = [writes EXCEPT ![w] =
          LET wr == [IdleWrite EXCEPT !.svc = svc, !.op = op, !.input = input]
          IN  IF Validates(svc) /\ ClientRejects(op, input)
              THEN Ended([wr EXCEPT !.result = "invalid"], ClientRejection(op, input))
              ELSE IF svc = "client" /\ op = "delete"
              THEN [wr EXCEPT !.pc = "lookup", !.requested = TRUE]
              ELSE [wr EXCEPT !.pc = "pending", !.requested = TRUE]]
    /\ UNCHANGED <<now, db, reads, cacheVars, connVars, healthVars, logVars>>

\* clientService.delete: getById answers
WriteLookup(w, found) ==
    /\ writes[w].pc = "lookup"
    /\ writes' = [writes EXCEPT ![w] =
          IF found THEN [@ EXCEPT !.pc = "pending"]
          ELSE Ended([@ EXCEPT !.result = "notfound"],
                     ClientCatch("delete", Quiet(PlainError("notFound"))))]
    /\ UNCHANGED <<now, db, reads, cacheVars, connVars, healthVars, logVars>>

\* the data service handles the request of write w
WriteServe(w, outcome) ==
    /\ writes[w].pc = "pending"
    /\ writes' = [writes EXCEPT ![w] =
          [@ EXCEPT !.pc = "answered", !.result = outcome,
                    !.version = IF outcome = "ok" THEN db + 1 ELSE db]]
    /\ db' = IF outcome = "ok" THEN db + 1 ELSE db
    /\ UNCHANGED <<now, reads, cacheVars, connVars, healthVars, logVars>>

\* the answer reaches the write operation, which runs to its return or throw
WriteComplete(w) ==
    /\ writes[w].pc = "answered"
    /\ writes' = [writes EXCEPT ![w] =
          Ended(@, Settle(writes[w].svc, writes[w].op, writes[w].result))]
    /\ cache' = IF writes[w].result = "ok" THEN AfterWrite(writes[w].svc, cache)
                ELSE cache
    /\ UNCHANGED <<now, db, reads, lastOp, connVars, healthVars, logVars>>

\* clientService.getAll / loadDashboardData up to the first await
ReadBegin(r, kind, forceRefresh) ==
    /\ reads[r].pc \in {"idle", "done"}
    /\ kind # "dashboard" => ~forceRefresh
    /\ IF kind \in DirectReads
       THEN /\ cache' = cache
            /\ reads' = [reads EXCEPT ![r] =
                  [IdleRead EXCEPT !.pc = "pending", !.kind = kind]]
       ELSE IF kind = "clients"
       THEN LET hit == GetValue(cache, "clients", now)
            IN  /\ cache' = GetStore(cache, "clients", now)
                /\ reads' = [reads EXCEPT ![r] =
                      IF hit # Null
                      THEN [IdleRead EXCEPT !.pc = "done", !.kind = kind,
                                            !.data = hit, !.fromCache = TRUE]
                      ELSE [IdleRead EXCEPT !.pc = "pending", !.kind = kind]]
       ELSE IF forceRefresh
       THEN /\ cache' = cache
            /\ reads' = [reads EXCEPT ![r] =
                  [IdleRead EXCEPT !.pc = "pending", !.kind = kind, !.force = TRUE]]
       ELSE LET stats == GetValue(cache, "dashboard", now)
                afterStats == GetStore(cache, "dashboard", now)
                deals == GetValue(afterStats, "deals", now)
            IN  /\ cache' = GetStore(afterStats, "deals", now)
                /\ reads' = [reads EXCEPT ![r] =
                      IF stats # Null /\ deals # Null
                      THEN [IdleRead EXCEPT !.pc = "done", !.kind = kind,
                                            !.data = stats, !.fromCache = TRUE]
                      ELSE [IdleRead EXCEPT !.pc = "pending", !.kind = kind]]
    /\ UNCHANGED <<now, db, writes, lastOp, connVars, healthVars, logVars>>

\* read r is answered: what it will return is determined by the answer and the
\* rows the data service holds now
ReadServe(r, answer) ==
    /\ reads[r].pc = "pending"
    /\ reads[r].kind \in DirectReads => answer # "mock"
    /\ reads' = [reads EXCEPT ![r] =
          [@ EXCEPT !.pc = "answered", !.answer = answer,
                    !.data = ReadResult(reads[r].kind, answer, db)]]
    /\ UNCHANGED <<now, db, writes, cacheVars, connVars, healthVars, logVars>>

\* a dashboard entry that declares the client rows only
DashboardDependsOnClients == <<"clients">>

\* the dependencies loadDashboardData declares for 'dashboard' and for 'deals'
DashboardDependencies == <<"clients", "deals", "activities", "notifications">>

DealsDependencies == <<"clients">>

\* the rows reach the reader, which stores them and returns
ReadComplete(r) ==
    /\ reads[r].pc = "answered"
    /\ reads' = [reads EXCEPT ![r] = [@ EXCEPT !.pc = "done"]]
    /\ cache' =
          IF reads[r].kind \in DirectReads THEN cache
          ELSE IF reads[r].kind = "clients"
          THEN CachePut(cache, "clients", reads[r].data, << >>, now)
          ELSE CachePut(
                 CachePut(cache, "dashboard", reads[r].data,
                          DashboardDependencies, now),
                 "deals", reads[r].data, DealsDependencies, now)
    /\ UNCHANGED <<now, db, writes, lastOp, connVars, healthVars, logVars>>

\* the instants at which the service specification looks at the clock
SvcInstants ==
    {1 + a + b * DEFAULT_TTL : a \in 0..1, b \in 0..MaxTtlPeriods}

TickSvc(d) ==
    /\ now + d \in SvcInstants
    /\ now' = now + d
    /\ UNCHANGED <<cacheVars, connVars, healthVars, svcVars, logVars>>

NextSvc ==
    \/ \E w \in WriteIds, svc \in WriteServices, op \in WriteOps,
             input \in WriteInputs :
          WriteBegin(w, svc, op, input)
    \/ \E w \in WriteIds, found \in BOOLEAN : WriteLookup(w, found)
    \/ \E w \in WriteIds, outcome \in WriteOutcomes :
          WriteServe(w, outcome)
    \/ \E w \in WriteIds : WriteComplete(w)
    \/ \E r \in ReadIds, kind \in ReadKinds, forceRefresh \in BOOLEAN :
          ReadBegin(r, kind, forceRefresh)
    \/ \E r \in ReadIds, answer \in ReadAnswers : ReadServe(r, answer)
    \/ \E r \in ReadIds : ReadComplete(r)
    \/ \E d \in {1, DEFAULT_TTL} : TickSvc(d)

\* the read operations alone, the direct ones included
NextRead ==
    \/ \E r \in ReadIds, kind \in ReadKinds \cup DirectReads,
             forceRefresh \in BOOLEAN :
          ReadBegin(r, kind, forceRefresh)
    \/ \E r \in ReadIds, answer \in ReadAnswers : ReadServe(r, answer)
    \/ \E r \in ReadIds : ReadComplete(r)
    \/ \E d \in {1, DEFAULT_TTL} : TickSvc(d)

\* the cached reads and the invalidation of each key the dashboard depends on
NextDash ==
    \/ \E r \in ReadIds, kind \in ReadKinds, forceRefresh \in BOOLEAN :
          ReadBegin(r, kind, forceRefresh)
    \/ \E r \in ReadIds, answer \in ReadAnswers : ReadServe(r, answer)
    \/ \E r \in ReadIds : ReadComplete(r)
    \/ \E k \in {"clients", "deals", "activities", "notifications"} :
          Invalidate(k)
    \/ \E d \in {1, DEFAULT_TTL} : TickSvc(d)

\* ------------------------------------------------------------------------
\* Logger (src/github-deploy/src/utils/logger.ts)
\* ------------------------------------------------------------------------
\* enum LogLevel
DEBUG == 0
INFO == 1
WARN == 2
ERROR == 3
CRITICAL == 4

LogLevels == DEBUG..CRITICAL

LogIds == 1..MaxLogCalls

\* the endpoints enableRemoteLogging is called with; "" is the empty string
\* and also stands for a remoteEndpoint that was never set
Endpoints == {"", "https://logs"}

\* what the fetch of a delivery does: resolve (whatever the http status) or
\* reject
FetchResults == {"ok", "reject"}

\* the config of the global instance, lines 272-278
LoggerConfig(development) ==
    [level |-> IF development THEN DEBUG ELSE INFO,
     enableConsole |-> TRUE,
     enableStorage |-> TRUE,
     maxStorageEntries |-> MaxStorageEntries,
     enableRemoteLogging |-> FALSE,
     remoteEndpoint |-> ""]

\* a filter that lets a level through only above the threshold
ShouldLogAbove(config, level) == level > config.level

\* shouldLog
ShouldLog(config, level) == level >= config.level

\* createLogEntry; the id stands for the entry's id and timestamp
CreateLogEntry(level) == [id |-> nextLogId, level |-> level]

\* logToConsole
LogToConsole(config, entry, out) ==
    IF ~config.enableConsole THEN out
    ELSE Append(out, [src |-> "log", id |-> entry.id, level |-> entry.level])

\* Array.prototype.slice(0, n) for n >= 0
Slice0(seq, n) == SubSeq(seq, 1, IF n < Len(seq) THEN n ELSE Len(seq))

\* a storage that adds the entry at the end
LogToStorageAtEnd(config, entry, logs) ==
    IF ~config.enableStorage THEN logs
    ELSE Slice0(Append(logs, entry), config.maxStorageEntries)

\* logToStorage: [entry, ...existingLogs].slice(0, maxStorageEntries)
LogToStorage(config, entry, logs) ==
    IF ~config.enableStorage THEN logs
    ELSE Slice0(<<entry>> \o logs, config.maxStorageEntries)

\* a delivery that asks for the enable flag only
RemoteIfEnabled(config) == config.enableRemoteLogging

\* logToRemote, line 117: no delivery without the flag and an endpoint
RemoteConfigured(config) ==
    config.enableRemoteLogging /\ config.remoteEndpoint # ""

NoDelivery == [pc |-> "none", result |-> "none", promise |-> "none"]

\* logToRemote is an async function: it returns a pending promise
LogToRemote(config, entry, deliveries) ==
    IF ~RemoteConfigured(config) THEN deliveries
    ELSE [deliveries EXCEPT ![entry.id] =
            [pc |-> "pending", result |-> "none", promise |-> "pending"]]

NoLog == [op |-> "none", level |-> DEBUG, accepted |-> FALSE, thrown |-> FALSE]

\* Logger.log(level, ...) under the given config, called from op
Log(config, op, level) ==
    /\ logConfig' = config
    /\ IF ~ShouldLog(config, level)
       THEN /\ lastLog' = [op |-> op, level |-> level, accepted |-> FALSE,
                           thrown |-> FALSE]
            /\ UNCHANGED <<stored, console, nextLogId, remote>>
       ELSE /\ nextLogId <= MaxLogCalls
            /\ LET entry == CreateLogEntry(level) IN
                 /\ console' = LogToConsole(config, entry, console)
                 /\ stored' = LogToStorage(config, entry, stored)
                 /\ remote' = IF level >= ERROR
                               THEN LogToRemote(config, entry, remote)
                               ELSE remote
                 /\ nextLogId' = nextLogId + 1
                 /\ lastLog' = [op |-> op, level |-> level, accepted |-> TRUE,
                                thrown |-> FALSE]
    /\ UNCHANGED <<now, cacheVars, connVars, healthVars, svcVars>>

\* debug / info / warn / error / critical
LogCall(level) ==
    /\ level \in LogLevels
    /\ Log(logConfig, "log", level)

\* setLogLevel(level): the level is set, then the change is logged at INFO
SetLogLevel(level) ==
    /\ level \in LogLevels
    /\ Log([logConfig EXCEPT !.level = level], "setLogLevel", INFO)

\* enableRemoteLogging(endpoint)
EnableRemoteLogging(endpoint) ==
    /\ endpoint \in Endpoints
    /\ Log([logConfig EXCEPT !.enableRemoteLogging = TRUE,
                             !.remoteEndpoint = endpoint],
           "enableRemoteLogging", INFO)

\* disableRemoteLogging()
DisableRemoteLogging ==
    /\ Log([logConfig EXCEPT !.enableRemoteLogging = FALSE],
           "disableRemoteLogging", INFO)

\* logToRemote after its await: the fetch has settled; a rejection is caught
\* and reported with console.warn
RemoteSettle(id, result) ==
    /\ remote[id].pc = "pending"
    /\ remote' = [remote EXCEPT ![id] =
          [pc |-> "settled", result |-> result, promise |-> "fulfilled"]]
    /\ console' = IF result = "reject"
                  THEN Append(console, [src |-> "remoteFailure", id |-> id,
                                        level |-> WARN])
                  ELSE console
    /\ UNCHANGED <<logConfig, stored, nextLogId, lastLog>>
    /\ UNCHANGED <<now, cacheVars, connVars, healthVars, svcVars>>

\* the log calls and the threshold
NextLog ==
    \/ \E level \in LogLevels : LogCall(level)
    \/ \E level \in LogLevels : SetLogLevel(level)

\* the remote delivery: the calls of the levels around ERROR, the threshold
\* at both ends, the remote configuration and the settling of deliveries
NextRemote ==
    \/ \E level \in {WARN, ERROR, CRITICAL} : LogCall(level)
    \/ \E level \in {DEBUG, CRITICAL} : SetLogLevel(level)
    \/ \E endpoint \in Endpoints : EnableRemoteLogging(endpoint)
    \/ DisableRemoteLogging
    \/ \E id \in LogIds, result \in FetchResults : RemoteSettle(id, result)

\* ------------------------------------------------------------------------
\* Initial state: the modules as loaded
\* ------------------------------------------------------------------------
Init ==
    /\ now = 1
    /\ cache = Remove(<< >>, {})
    /\ lastOp = NoOp
    /\ supabaseConnectionStatus = "unknown"
    /\ lastConnectionCheck = 0
    /\ enableMockDataFlag = FALSE
    /\ isDevelopment \in BOOLEAN
    /\ configured \in BOOLEAN
    /\ calls = [c \in CallIds |-> IdleCall]
    /\ resetPending = FALSE
    /\ toggles = 0
    /\ lastHealthCheck = NoSnapshot
    /\ healthCheckInProgress = FALSE
    /\ hcalls = [h \in HealthIds |-> IdleHealthCall]
    /\ monitor = MonitorOff
    /\ db = 1
    /\ writes = [w \in WriteIds |-> IdleWrite]
    /\ reads = [r \in ReadIds |-> IdleRead]
    /\ logConfig = LoggerConfig(isDevelopment)
    /\ stored = << >>
    /\ console = << >>
    /\ nextLogId = 1
    /\ remote = [id \in LogIds |-> NoDelivery]
    /\ lastLog = NoLog

\* The cache reads nothing of the environment: one environment is enough.
InitCache == Init /\ isDevelopment /\ configured

NextCache ==
    \/ \E k \in UsedKeys, d \in Payloads, ttl \in TTLs :
          \E deps \in DepsFor(k) : Set(k, d, deps, ttl)
    \/ \E k \in UsedKeys : Get(k)
    \/ \E k \in UsedKeys : Has(k)
    \/ \E k \in UsedKeys : Invalidate(k)
    \/ InvalidateAll
    \/ InvalidateClientCacheCall
    \/ Cleanup
    \/ GetStats
    \/ TickCache

SpecCache == InitCache /\ [][NextCache]_vars

SpecConn == Init /\ [][NextConn]_vars

SpecToggle == Init /\ [][NextToggle]_vars

\* The health snapshot reads nothing of the environment: one environment is enough.
InitHealth == Init /\ isDevelopment /\ configured

SpecHealth == InitHealth /\ [][NextHealth]_vars

\* A probe that was started is answered: the awaited checkSupabaseHealth
\* settles, whatever the monitoring session does meanwhile.
InitLog == Init /\ configured

SpecLog == InitLog /\ [][NextLog]_vars

SpecRemote == InitLog /\ [][NextRemote]_vars

SpecMonitor ==
    /\ InitHealth
    /\ [][NextMonitor]_vars
    /\ \A h \in HealthIds :
          WF_vars(\E status \in ServiceStatuses : HealthProbeDone(h, status))

\* The environment enters the services only through the rows a read is given.
InitSvc == Init /\ isDevelopment /\ configured

SpecSvc == InitSvc /\ [][NextSvc]_vars

SpecRead == InitSvc /\ [][NextRead]_vars

SpecDash == InitSvc /\ [][NextDash]_vars

\* ------------------------------------------------------------------------
\* Claims about the cache manager
\* ------------------------------------------------------------------------
\* the ttl given to the last set of k has not run out and the entry is stored
Live(k) == k \in DOMAIN cache /\ now <= cache[k].due

\* C1 (Cache TTL): a get(k) that directly follows set(k, v, deps, ttl), ttl > 0,
\* returns v; a get(k) made once the clock is past the ttl of the last set(k)
\* (or with no entry stored) returns Null and leaves no entry for k, and has(k)
\* is false for every key whose ttl has run out.
C1_CacheTTL ==
    /\ lastOp.op = "get" =>
          /\ (lastOp.justSet # Null => lastOp.ret = lastOp.justSet)
          /\ (~Live(lastOp.key) =>
                 lastOp.ret = Null /\ lastOp.key \notin DOMAIN cache)
    /\ \A k \in CacheKey : ~Live(k) => ~CacheHas(cache, k, now)

\* a get found its entry past the ttl, evicted it and returned Null
C1_Witness ==
    /\ lastOp.op = "get"
    /\ lastOp.removed = {lastOp.key}
    /\ lastOp.ret = Null
    /\ ~CacheHas(cache, lastOp.key, now)

\* unexpired entries a (no dependencies), b (depends on a), c (depends on b)
Chain(a, b, c) ==
    /\ {a, b, c} \subseteq DOMAIN cache
    /\ \A k \in {a, b, c} : now <= cache[k].timestamp
    /\ cache[a].dependencies = << >>
    /\ cache[b].dependencies = <<a>>
    /\ cache[c].dependencies = <<b>>

C3_NoEntryOutlivesTTL ==
    /\ \A k \in DOMAIN cache : now <= cache[k].timestamp
    /\ lastOp.op = "getStats" =>
          /\ \A k \in StatsKeys(cache) : CacheHas(cache, k, now)
          /\ StatsSize(cache) =
                Cardinality({k \in CacheKey : CacheHas(cache, k, now)})

\* ------------------------------------------------------------------------
\* Claims about the connection monitor
\* ------------------------------------------------------------------------
\* this step, call c entered isSupabaseAvailable
EnteredAvailable(c) ==
    /\ calls[c].pc \in {"idle", "done"}
    /\ calls'[c] # calls[c]
    /\ calls'[c].pc \in {"fetching", "done"}
    /\ calls'[c].path \in {"cached", "unconfigured", "fetch"}

\* this step, call c returned
Returns(c) == calls'[c] # calls[c] /\ calls'[c].pc = "done"

\* no two invocations entered since the last reset, less than the cooldown
\* apart, have both issued a probe
AtMostOneProbe ==
    \A c1, c2 \in CallIds :
       (/\ c1 # c2
        /\ calls[c1].pc # "idle" /\ calls[c2].pc # "idle"
        /\ ~calls[c1].stale /\ ~calls[c2].stale
        /\ calls[c1].now - calls[c2].now < CONNECTION_CHECK_INTERVAL
        /\ calls[c2].now - calls[c1].now < CONNECTION_CHECK_INTERVAL)
       => ~(calls[c1].path = "fetch" /\ calls[c2].path = "fetch")

\* C4 (health cooldown): two calls of isSupabaseAvailable that begin within the
\* cooldown of each other, in any interleaving, issue at most one probe; a call
\* that begins once the cooldown has elapsed does not use the cached state.
C4_HealthCooldown ==
    [][/\ AtMostOneProbe'
       /\ \A c \in CallIds :
            (EnteredAvailable(c)
             /\ now - lastConnectionCheck >= CONNECTION_CHECK_INTERVAL)
            => calls'[c].path # "cached"]_vars

\* C7 (reset): right after resetConnectionStatus or enableMockData the state is
\* unknown and lastCheck is 0, and the next call of isSupabaseAvailable, in any
\* interleaving, evaluates the connection instead of using the cached result.
C7_ResetForcesLiveCheck ==
    [][/\ (~resetPending /\ resetPending') =>
             (supabaseConnectionStatus' = "unknown" /\ lastConnectionCheck' = 0)
       /\ \A c \in CallIds :
            (resetPending /\ EnteredAvailable(c)) => calls'[c].path # "cached"]_vars

\* C8 (fallback decision): shouldUseMockData returns TRUE when the force flag is
\* set, issuing no probe and leaving the connection state alone; otherwise, in
\* the development posture, the negation of what isSupabaseAvailable returned;
\* otherwise FALSE, whatever the connection state.
C8_FallbackDecision ==
    [][\A c \in CallIds :
         (Returns(c) /\ calls'[c].fn = "shouldUseMockData") =>
            IF calls[c].pc = "fetching"
            THEN /\ isDevelopment
                 /\ calls'[c].ret = ~calls'[c].avail
                 /\ calls'[c].avail = (supabaseConnectionStatus' = "connected")
            ELSE IF enableMockDataFlag
            THEN /\ calls'[c].ret = TRUE
                 /\ calls'[c].path = "forced"
                 /\ UNCHANGED <<supabaseConnectionStatus, lastConnectionCheck>>
            ELSE IF isDevelopment
            THEN /\ calls'[c].path \in {"cached", "unconfigured"}
                 /\ calls'[c].ret = ~calls'[c].avail
                 /\ calls'[c].avail = (supabaseConnectionStatus' = "connected")
            ELSE /\ calls'[c].ret = FALSE
                 /\ calls'[c].path = "production"
                 /\ UNCHANGED <<supabaseConnectionStatus, lastConnectionCheck>>]_vars

\* in the production posture, with the service found unreachable and the force
\* flag clear, shouldUseMockData has returned FALSE
C8_Witness ==
    /\ ~isDevelopment
    /\ ~enableMockDataFlag
    /\ supabaseConnectionStatus = "failed"
    /\ \E c \in CallIds :
          /\ calls[c].pc = "done"
          /\ calls[c].fn = "shouldUseMockData"
          /\ calls[c].path = "production"
          /\ calls[c].ret = FALSE

\* C9 (probe outcome): a call of isSupabaseAvailable that does not use the cached
\* result ends with the status connected or failed: failed, with no request
\* issued, when the service is not configured; connected when the probe answers
\* ok; failed on any other outcome; and it returns (status = connected).
C9_ProbeEndsDecided ==
    [][\A c \in CallIds :
         (Returns(c) /\ calls'[c].path \in {"unconfigured", "fetch"}) =>
            /\ supabaseConnectionStatus' \in {"connected", "failed"}
            /\ calls'[c].avail = (supabaseConnectionStatus' = "connected")
            /\ calls'[c].path = "unconfigured" =>
                  /\ ~configured
                  /\ calls[c].pc # "fetching"
                  /\ supabaseConnectionStatus' = "failed"
            /\ calls'[c].path = "fetch" =>
                  /\ configured
                  /\ calls[c].pc = "fetching"
                  /\ (calls'[c].outcome = "ok") =
                        (supabaseConnectionStatus' = "connected")]_vars

\* a probe was aborted by its timeout and the call returned FALSE with the
\* status failed
C9_Witness ==
    \E c \in CallIds :
       /\ calls[c].pc = "done"
       /\ calls[c].path = "fetch"
       /\ calls[c].outcome = "timeout"
       /\ calls[c].fn = "isSupabaseAvailable"
       /\ calls[c].ret = FALSE
       /\ supabaseConnectionStatus = "failed"

\* C10 as stated: a probe that ends records the time at which it ended.
C10_CheckTimeIsProbeEnd ==
    [][\A c \in CallIds :
         (calls[c].pc = "fetching" /\ calls'[c].pc = "done")
         => lastConnectionCheck' = now']_vars

\* C10 (amended): a live evaluation that ends, whatever its outcome, records the
\* time the call read on entry, which is not later than the time it ended; the
\* cached state is used only while less than the cooldown has passed since the
\* recorded time.
C10_CheckTimeIsEntryTime ==
    [][\A c \in CallIds :
         /\ (calls[c].pc = "fetching" /\ calls'[c].pc = "done") =>
               (lastConnectionCheck' = calls[c].now /\ calls[c].now <= now')
         /\ (Returns(c) /\ calls'[c].path = "unconfigured") =>
               lastConnectionCheck' = now'
         /\ (EnteredAvailable(c) /\ calls'[c].path = "cached") =>
               /\ now - lastConnectionCheck < CONNECTION_CHECK_INTERVAL
               /\ lastConnectionCheck' = lastConnectionCheck]_vars

\* a probe that took time has ended and the recorded check time is its entry
\* time, which is earlier than the present
C10_Witness ==
    \E c \in CallIds :
       /\ calls[c].pc = "done"
       /\ calls[c].path = "fetch"
       /\ lastConnectionCheck = calls[c].now
       /\ calls[c].now < now
       /\ supabaseConnectionStatus # "unknown"

\* ------------------------------------------------------------------------
\* Health snapshot claims
\* ------------------------------------------------------------------------
Probing == {h \in HealthIds : hcalls[h].pc = "probing"}

HealthEntered(h) == hcalls[h].pc \in {"idle", "done"} /\ hcalls'[h] # hcalls[h]

HealthWoke(h) == hcalls[h].pc = "waiting" /\ hcalls'[h].pc # "waiting"

\* C5: while one health refresh is in flight every other caller, forced or not
\* and first checks included, waits and returns the most recently completed
\* snapshot without starting a second probe, so at most one probe is in flight
\* at any time.
C5_SingleProbeInFlight ==
    [][/\ \A h \in HealthIds :
             HealthWoke(h) /\ Probing \ {h} # {} =>
                /\ hcalls'[h].pc = "done"
                /\ hcalls'[h].ret = lastHealthCheck
          /\ Cardinality(Probing') <= 1]_vars

\* C5, as the code has it: a caller that is not served from the fresh snapshot
\* and finds healthCheckInProgress set starts no probe on entry but waits; when
\* its wait ends it returns the stored snapshot, unchanged, if one has been
\* completed, and starts a probe of its own only if none has.
C5_WaitThenSnapshotOrProbe ==
    [][\A h \in HealthIds :
          /\ HealthEntered(h) /\ healthCheckInProgress
                /\ ~RecentSnapshot(hcalls'[h].force, now) =>
                   hcalls'[h].pc = "waiting"
          /\ HealthWoke(h) /\ lastHealthCheck # NoSnapshot =>
                /\ hcalls'[h].pc = "done"
                /\ hcalls'[h].ret = lastHealthCheck
                /\ UNCHANGED <<lastHealthCheck, healthCheckInProgress>>
          /\ HealthWoke(h) /\ lastHealthCheck = NoSnapshot =>
                hcalls'[h].pc = "probing"]_vars

\* a forced caller waited through another caller's refresh and got the
\* snapshot completed before it
C5_Witness ==
    \E h, g \in HealthIds :
        /\ hcalls[h].pc = "done" /\ hcalls[h].path = "waited" /\ hcalls[h].force
        /\ hcalls[h].ret = lastHealthCheck
        /\ lastHealthCheck # NoSnapshot
        /\ hcalls[g].pc = "probing"

\* ------------------------------------------------------------------------
\* Service claims
\* ------------------------------------------------------------------------
WriteSucceeded(w) ==
    /\ writes[w].pc = "answered"
    /\ writes[w].result = "ok"
    /\ writes'[w].pc = "done"

\* C6: after every successful create, update or delete through clientService,
\* dealService or activityService the cache holds no entry for the affected
\* resource key and none for 'dashboard', so the next read of either key misses
\* the cache and refetches.
C6_WriteInvalidates ==
    [][\A w \in WriteIds :
          WriteSucceeded(w) /\ writes[w].svc \in Services =>
             /\ ResourceKey(writes[w].svc) \notin DOMAIN cache'
             /\ "dashboard" \notin DOMAIN cache']_vars

\* this step, write w got the data service's answer and ended
WriteAnswered(w) == writes[w].pc = "answered" /\ writes'[w].pc = "done"

\* C11: a write of clientService, dealService, activityService or
\* notificationService that fails at the data service (error answer or thrown
\* request) rejects with an AppError that carries the original cause, after a
\* log at ERROR and a toast; no failed write returns as if it had succeeded.
C11_FailedWriteRejectsTyped ==
    [][\A w \in WriteIds :
          WriteAnswered(w) /\ writes[w].result # "ok" =>
             /\ writes'[w].thrown.type = "AppError"
             /\ writes'[w].thrown.original
             /\ \E i \in 1..Len(writes'[w].logs) : writes'[w].logs[i] = "ERROR"
             /\ writes'[w].toasts >= 1]_vars

\* this step, write w was rejected by the argument checks of clientService
WriteRejected(w) ==
    /\ writes[w].pc \in {"idle", "done"}
    /\ writes'[w] # writes[w]
    /\ writes'[w].result = "invalid"

\* C12: a clientService.create or update whose input fails validation is
\* rejected before any request is issued, the caller gets an AppError, the
\* cache is unchanged and the write is not retried.
C12_ValidationRejectsTyped ==
    [][\A w \in WriteIds :
          (/\ writes[w].pc \in {"idle", "done"}
           /\ writes'[w] # writes[w]
           /\ writes'[w].svc = "client"
           /\ writes'[w].op \in {"create", "update"}
           /\ writes'[w].input = "badData") =>
             /\ writes'[w].pc = "done"
             /\ ~writes'[w].requested
             /\ writes'[w].thrown.type = "AppError"
             /\ cache' = cache
             /\ db' = db]_vars

\* this step, read r returned what the data service's answer made of it
ReadAnswered(r) == reads[r].pc = "answered" /\ reads'[r].pc = "done"

\* C13: a getAll or getById of clients, deals, activities or notifications that
\* the data service answers with the missing-table error does not throw and
\* returns the empty collection or null, never substituted or stale data.
C13_MissingTableReadIsEmpty ==
    [][\A r \in ReadIds :
          (/\ ReadAnswered(r)
           /\ reads[r].kind \in {"clients"} \cup DirectReads
           /\ reads[r].answer = "tableMissing") =>
             /\ reads'[r].data \in {EmptyRows, Null}
             /\ cache' = cache]_vars

\* ------------------------------------------------------------------------
\* Claims about the cache helpers
\* ------------------------------------------------------------------------
\* C14 (end-to-end client invalidation): whatever the cache holds, after
\* invalidateClientCache() get('clients') and get('dashboard') both return Null;
\* before it, a get('clients') made while the ttl of the last set('clients')
\* has not run out returns the stored list.
C14_ClientInvalidationEndToEnd ==
    [][/\ lastOp'.op = "invalidateClientCache" =>
             /\ GetValue(cache', "clients", now') = Null
             /\ GetValue(cache', "dashboard", now') = Null
       /\ (lastOp'.op = "get" /\ lastOp'.key = "clients" /\ Live("clients")) =>
             lastOp'.ret = cache["clients"].data]_vars

\* invalidateClientCache() removed a stored clients entry and a stored
\* dashboard entry
C14_Witness ==
    /\ lastOp.op = "invalidateClientCache"
    /\ lastOp.removed = {"clients", "dashboard"}
    /\ "deals" \in DOMAIN cache

\* ------------------------------------------------------------------------
\* Claims about the health snapshot cache
\* ------------------------------------------------------------------------
\* this step, call h of checkSystemHealth returned
HealthReturned(h) == hcalls[h].pc # "done" /\ hcalls'[h].pc = "done"

\* a non-forced call that enters less than the cache window after the stored
\* snapshot's timestamp returns that snapshot and starts no probe
ServedFromSnapshot(h) ==
    (/\ HealthEntered(h)
     /\ ~hcalls'[h].force
     /\ lastHealthCheck # NoSnapshot
     /\ now - lastHealthCheck.timestamp < HEALTH_CHECK_CACHE_DURATION) =>
        /\ hcalls'[h].pc = "done"
        /\ hcalls'[h].ret = lastHealthCheck
        /\ UNCHANGED <<lastHealthCheck, healthCheckInProgress>>

MonitorDriven(h) == hcalls[h].by \in {"initial", "timer"}

\* startHealthMonitoring or its disposer has just run
MonitorStarted == ~monitor.on /\ monitor'.on

MonitorStopped == monitor.on /\ ~monitor'.on

\* each step of the monitoring session: starting makes a forced check at
\* once and arms the timer one interval ahead; a timer-driven check enters
\* only while the session is on, at the tick instant, forced; stopping
\* changes no call and not the in-flight flag
MonitorStep ==
    /\ MonitorStarted =>
          /\ monitor'.next = now + monitor'.interval
          /\ \E h \in HealthIds :
                /\ HealthEntered(h)
                /\ hcalls'[h].by = "initial"
                /\ hcalls'[h].force
                /\ hcalls'[h].now = now
    /\ \A h \in HealthIds :
          HealthEntered(h) /\ hcalls'[h].by = "timer" =>
              /\ monitor.on
              /\ now = monitor.next
              /\ hcalls'[h].force
              /\ hcalls'[h].now = now
    /\ \A h \in HealthIds :
          HealthEntered(h) /\ hcalls'[h].by = "initial" => MonitorStarted
    /\ MonitorStopped =>
          /\ hcalls' = hcalls
          /\ healthCheckInProgress' = healthCheckInProgress
          /\ lastHealthCheck' = lastHealthCheck

\* one check per tick: two timer-driven checks never entered at one instant
OneCheckPerTick ==
    \A g, h \in HealthIds :
        /\ g # h
        /\ hcalls[g].by = "timer"
        /\ hcalls[h].by = "timer"
        /\ hcalls[g].pc # "idle"
        /\ hcalls[h].pc # "idle"
        => hcalls[g].now # hcalls[h].now

\* C16: startHealthMonitoring starts a forced check at once and one forced
\* check per interval tick; once the disposer has run no timer-driven check
\* starts any more, and a probe in flight is left alone and still completes.
C16_MonitoringLifecycle ==
    /\ [][MonitorStep]_vars
    /\ []OneCheckPerTick
    /\ \A h \in HealthIds :
          (hcalls[h].pc = "probing") ~> (hcalls[h].pc = "done")

\* a timer-driven probe is in flight after the session was stopped
C16_Witness ==
    /\ ~monitor.on
    /\ \E h \in HealthIds :
          /\ hcalls[h].by = "timer"
          /\ hcalls[h].pc = "probing"

\* how bad a status is
Severity(status) ==
    CASE status = "healthy" -> 0
      [] status = "degraded" -> 1
      [] status = "unhealthy" -> 2

\* the snapshots the program holds: the stored one and those returned to callers
SnapshotsHeld ==
    ({lastHealthCheck} \cup {hcalls[h].ret : h \in HealthIds}) \ {NoSnapshot}

\* C17: the overall status of every health snapshot is the worst of its
\* service statuses: unhealthy if any service is unhealthy, otherwise degraded
\* if any is degraded, otherwise healthy.
C17_OverallIsWorstService ==
    \A snap \in SnapshotsHeld :
        /\ Len(snap.services) > 0
        /\ \E i \in 1..Len(snap.services) : snap.services[i] = snap.overall
        /\ \A i \in 1..Len(snap.services) :
              Severity(snap.services[i]) <= Severity(snap.overall)

\* a degraded snapshot is stored and an unhealthy one was returned to a caller
C17_Witness ==
    /\ lastHealthCheck.overall = "degraded"
    /\ \E h \in HealthIds :
          /\ hcalls[h].pc = "done"
          /\ hcalls[h].ret.overall = "unhealthy"

\* the entries the logger has created so far: ids 1..EntriesMade
EntriesMade == nextLogId - 1

LogCalled == lastLog' # lastLog \/ nextLogId' # nextLogId

DeliveryStarted(id) == remote[id].pc = "none" /\ remote'[id].pc = "pending"

DeliverySettled(id) == remote[id].pc = "pending" /\ remote'[id].pc = "settled"

\* C20: a log call attempts a remote delivery only when its level is ERROR
\* or CRITICAL, it passes the threshold, remote logging is enabled and an
\* endpoint is configured; a failed delivery never propagates an exception
\* to the caller of the log call and leaves the persisted entries unchanged.
C20_RemoteDelivery ==
    [][/\ \A id \in LogIds :
            DeliveryStarted(id) =>
                /\ LogCalled
                /\ id = nextLogId
                /\ lastLog'.level \in {ERROR, CRITICAL}
                /\ lastLog'.level >= logConfig'.level
                /\ logConfig'.enableRemoteLogging
                /\ logConfig'.remoteEndpoint # ""
       /\ \A id \in LogIds :
            DeliverySettled(id) /\ remote'[id].result = "reject" =>
                /\ stored' = stored
                /\ remote'[id].promise = "fulfilled"
                /\ lastLog' = lastLog
       /\ ~lastLog'.thrown]_vars

\* a delivery has failed while entries are persisted
C20_Witness ==
    /\ Len(stored) > 0
    /\ \E id \in LogIds :
          /\ remote[id].pc = "settled"
          /\ remote[id].result = "reject"
          /\ ~lastLog.thrown

\* C21: after any sequence of set calls, whatever their dependencies and
\* ttls, invalidateAll leaves the store empty: getStats().size is 0 and get
\* finds no key.
C21_InvalidateAllEmpties ==
    lastOp.op = "invalidateAll" =>
        /\ StatsSize(cache) = 0
        /\ StatsKeys(cache) = {}
        /\ \A k \in CacheKey :
              /\ GetValue(cache, k, now) = Null
              /\ ~CacheHas(cache, k, now)

\* invalidateAll has just cleared a store of several entries
C21_Witness ==
    /\ lastOp.op = "invalidateAll"
    /\ Cardinality(lastOp.removed) >= 2
    /\ StatsSize(cache) = 0

\* has and get agree on key k in the present store at the present time
SameFreshness(k) ==
    CacheHas(cache, k, now) <=>
        /\ k \in DOMAIN cache
        /\ GetValue(cache, k, now) = cache[k].data
        /\ GetValue(cache, k, now) # Null

\* C22: has(k) is true exactly when get(k) at that instant returns the
\* stored payload, an entry being valid iff now <= expiresAt; get on an
\* expired entry removes it from the store, and has never changes the store.
C22_HasAgreesWithGet ==
    /\ [](\A k \in CacheKey :
            /\ SameFreshness(k)
            /\ k \in DOMAIN cache =>
                  (CacheHas(cache, k, now) <=> now <= cache[k].timestamp))
    /\ [][/\ lastOp'.op = "has" => cache' = cache
          /\ lastOp'.op = "get" =>
                IF lastOp'.key \in DOMAIN cache
                   /\ now > cache[lastOp'.key].timestamp
                THEN /\ lastOp'.key \notin DOMAIN cache'
                     /\ lastOp'.ret = Null
                     /\ cache' = Remove(cache, {lastOp'.key})
                ELSE cache' = cache]_vars

\* has was asked about an entry at the very instant it expires
C22_Witness ==
    /\ lastOp.op = "has"
    /\ lastOp.key \in DOMAIN cache
    /\ cache[lastOp.key].timestamp = now
    /\ CacheHas(cache, lastOp.key, now)

\* the stored entries that declare key k among their dependencies
Dependents(k) ==
    {x \in DOMAIN cache : \E i \in 1..Len(cache[x].dependencies) :
                              cache[x].dependencies[i] = k}

C24_CleanupFrame ==
    [][lastOp'.op = "cleanup" =>
          /\ DOMAIN cache' = {k \in DOMAIN cache : now <= cache[k].timestamp}
          /\ \A k \in DOMAIN cache' : cache'[k] = cache[k]
          /\ CacheCleanup(cache', now) = cache'
          /\ \A k \in CacheKey :
                GetValue(cache', k, now) = GetValue(cache, k, now)]_vars

\* cleanup has removed an expired entry and kept one that expires at this
\* very instant
C24_Witness ==
    /\ lastOp.op = "cleanup"
    /\ lastOp.removed # {}
    /\ \E k \in DOMAIN cache : cache[k].timestamp = now

\* loadDashboardData, the only writer of these two keys, has stored them
DashboardLoaded == {"dashboard", "deals"} \subseteq DOMAIN cache

\* this step is a call of invalidate: the reads and the clock leave the
\* record of the last cache call as it is
InvalidateCalled ==
    /\ lastOp'.op = "invalidate"
    /\ reads' = reads
    /\ now' = now

\* C25: once the dashboard loader has stored 'dashboard' and 'deals',
\* invalidating any one of 'clients', 'deals', 'activities' or
\* 'notifications' leaves 'dashboard' absent, and invalidating 'clients'
\* also leaves 'deals' absent.
C25_DependentsFollowSources ==
    [][DashboardLoaded /\ InvalidateCalled =>
          /\ "dashboard" \notin DOMAIN cache'
          /\ GetValue(cache', "dashboard", now) = Null
          /\ lastOp'.key = "clients" =>
                /\ "deals" \notin DOMAIN cache'
                /\ GetValue(cache', "deals", now) = Null]_vars

\* invalidating 'activities' has removed the loaded dashboard entry and left
\* the loaded deals
C25_Witness ==
    /\ lastOp.op = "invalidate"
    /\ lastOp.key = "activities"
    /\ lastOp.removed = {"dashboard"}
    /\ "deals" \in DOMAIN cache
    /\ cache["deals"].dependencies = <<"clients">>

\* the client writes that succeeded and whose invalidateClientCache has run
ClientWritesDone ==
    {w \in WriteIds : /\ writes[w].svc = "client"
                      /\ writes[w].pc = "done"
                      /\ writes[w].result = "ok"}

\* C26: once the invalidateClientCache of a successful client write has run,
\* get('clients') never returns a list that was fetched from the data
\* service before that write completed.
C26_NoStaleReadSurvivesWrite ==
    \A w \in ClientWritesDone :
        LET list == GetValue(cache, "clients", now)
        IN  list > 0 => list >= writes[w].version

\* C27: with no resetHealthCheck in between, a completing refresh never
\* replaces the cached snapshot with one whose timestamp is older than the
\* snapshot it overwrites.
C27_SnapshotNeverGoesBack ==
    [][lastHealthCheck # NoSnapshot /\ lastHealthCheck' # NoSnapshot =>
          lastHealthCheck'.timestamp >= lastHealthCheck.timestamp]_vars

\* the writes that failed at the data service and have ended
WritesFailedAtService ==
    {w \in WriteIds : /\ writes[w].pc = "done"
                      /\ writes[w].requested
                      /\ writes[w].result \in {"error", "tableMissing", "thrown"}}

\* C28: for every write that fails at the data service handleWriteError runs
\* exactly once: one log entry is recorded and at most one toast is shown.
C28_FailedWriteHandledOnce ==
    \A w \in WritesFailedAtService :
        /\ Len(writes[w].logs) = 1
        /\ writes[w].toasts <= 1

\* handleToggleMockData has just run
Toggled == toggles' # toggles

\* C29: from any state in which the force-mock flag is set, invoking
\* handleToggleMockData clears the flag, so the flag alternates on
\* successive toggles and is never stuck enabled.
C29_ToggleClearsForcedMock ==
    [][Toggled /\ enableMockDataFlag => ~enableMockDataFlag']_vars

\* C30: in every reachable state, the clock being greater than 0, the
\* connection state is unknown exactly when lastCheck is 0; a connected or
\* failed state always has a recorded check time.
C30_StatusMatchesCheckTime ==
    /\ now > 0
    /\ supabaseConnectionStatus = "unknown" <=> lastConnectionCheck = 0
    /\ supabaseConnectionStatus \in {"connected", "failed"} =>
          /\ lastConnectionCheck > 0
          /\ lastConnectionCheck <= now

\* a probe that was in flight when the state was reset has ended and left a
\* decided state with its check time
C30_Witness ==
    \E c \in CallIds :
        /\ calls[c].pc = "done"
        /\ calls[c].stale
        /\ supabaseConnectionStatus = "connected"
        /\ lastConnectionCheck = calls[c].now

====
